---- MODULE Spec2Model ----
(***************************************************************************)
(* A model of the numeric core of sgp-bae:                                 *)
(*   gp/conditionals.py   batch_tril, conditional, conditional2            *)
(*   gp/densities.py      gaussian, multivariate_normal                    *)
(*   gp/models/gpr.py     GPR.compute_log_likelihood, GPR.predict_f        *)
(*                                                                         *)
(* Tensors are records [shape, at]: at maps every index tuple of the       *)
(* shape to an integer.  The arithmetic of the torch primitives is done in *)
(* the integers; the inputs are drawn from the matrices on which every     *)
(* square root and every division the code performs is exact, so that the  *)
(* integer result is the real-number result.                               *)
(***************************************************************************)
EXTENDS Integers, Sequences, FiniteSets, TLC

(***************************************************************************)
(* Python values: an exception that left a call, and None.  Every value of *)
(* the model is a record, so that its kind can be read off its fields.     *)
(***************************************************************************)
Err(kind) == [err |-> kind]

IsErr(v) == "err" \in DOMAIN v

None == [none |-> TRUE]

IsNone(v) == "none" \in DOMAIN v

IsTensor(v) == "shape" \in DOMAIN v

(***************************************************************************)
(* Dense tensors of rank 0..4.                                             *)
(***************************************************************************)
Idx(shape) ==
  CASE Len(shape) = 0 -> {<<>>}
    [] Len(shape) = 1 -> {<<i>> : i \in 1..shape[1]}
    [] Len(shape) = 2 -> {<<i, j>> : i \in 1..shape[1], j \in 1..shape[2]}
    [] Len(shape) = 3 ->
         {<<i, j, k>> : i \in 1..shape[1], j \in 1..shape[2], k \in 1..shape[3]}
    [] Len(shape) = 4 ->
         {<<i, j, k, l>> : i \in 1..shape[1], j \in 1..shape[2],
                           k \in 1..shape[3], l \in 1..shape[4]}

\* A tensor with the entries F(ix), tabulated (@@ yields the explicit function).
Tensor(shape, F(_)) == [shape |-> shape, at |-> [ix \in Idx(shape) |-> F(ix)] @@ <<>>]

dim(a) == Len(a.shape)

Max(p, q) == IF p >= q THEN p ELSE q

RECURSIVE SumFn(_, _)
SumFn(f, n) == IF n = 0 THEN 0 ELSE f[n] + SumFn(f, n - 1)

\* Broadcasting aligns the shapes on the right; a size-1 axis is repeated.
DimOf(s, n, d) == IF d <= n - Len(s) THEN 1 ELSE s[d - (n - Len(s))]

BShape(s1, s2) ==
  LET n == Max(Len(s1), Len(s2))
  IN  [d \in 1..n |-> Max(DimOf(s1, n, d), DimOf(s2, n, d))]

BCompatible(s1, s2) ==
  LET n == Max(Len(s1), Len(s2))
  IN  \A d \in 1..n :
        \/ DimOf(s1, n, d) = DimOf(s2, n, d)
        \/ DimOf(s1, n, d) = 1
        \/ DimOf(s2, n, d) = 1

BIdx(ix, sh) ==
  [d \in 1..Len(sh) |-> IF sh[d] = 1 THEN 1 ELSE ix[Len(ix) - Len(sh) + d]]

BinOp(a, b, Op(_, _)) ==
  IF ~BCompatible(a.shape, b.shape) THEN Err("RuntimeError")
  ELSE Tensor(BShape(a.shape, b.shape),
              LAMBDA ix : Op(a.at[BIdx(ix, a.shape)], b.at[BIdx(ix, b.shape)]))

add(a, b) == BinOp(a, b, LAMBDA p, q : p + q)

sub(a, b) == BinOp(a, b, LAMBDA p, q : p - q)

mul(a, b) == BinOp(a, b, LAMBDA p, q : p * q)

add_scalar(a, s) == Tensor(a.shape, LAMBDA ix : a.at[ix] + s)

mul_scalar(a, s) == Tensor(a.shape, LAMBDA ix : a.at[ix] * s)

square(a) == Tensor(a.shape, LAMBDA ix : a.at[ix] * a.at[ix])

eye(n) == Tensor(<<n, n>>, LAMBDA ix : IF ix[1] = ix[2] THEN 1 ELSE 0)

zeros(shape) == Tensor(shape, LAMBDA ix : 0)

InsertAt(ix, p, k) ==
  [q \in 1..(Len(ix) + 1) |->
     IF q < p THEN ix[q] ELSE IF q = p THEN k ELSE ix[q - 1]]

RemoveAt(s, p) ==
  [q \in 1..(Len(s) - 1) |-> IF q < p THEN s[q] ELSE s[q + 1]]

\* a.sum(d): the axis d (counted from 0) is summed away.
sum_dim(a, d) ==
  Tensor(RemoveAt(a.shape, d + 1),
         LAMBDA ix : SumFn([k \in 1..a.shape[d + 1] |->
                              a.at[InsertAt(ix, d + 1, k)]], a.shape[d + 1]))

RECURSIVE SumSet(_, _)
SumSet(f, S) ==
  IF S = {} THEN 0
  ELSE LET e == CHOOSE e \in S : TRUE IN f[e] + SumSet(f, S \ {e})

sum_all(a) == SumSet(a.at, DOMAIN a.at)

\* a.unsqueeze(d): a new axis of size 1 at position d (counted from 0).
unsqueeze(a, d) ==
  Tensor(InsertAt(a.shape, d + 1, 1), LAMBDA ix : a.at[RemoveAt(ix, d + 1)])

\* a.expand(shape): size-1 axes are repeated up to shape.
expand(a, shape) == Tensor(shape, LAMBDA ix : a.at[BIdx(ix, a.shape)])

\* a.squeeze(d): IndexError when a has no axis d; else the axis is dropped
\* when its size is 1.
squeeze(a, d) ==
  IF d >= Max(dim(a), 1) THEN Err("IndexError")
  ELSE IF dim(a) = 0 \/ a.shape[d + 1] # 1 THEN a
  ELSE Tensor(RemoveAt(a.shape, d + 1), LAMBDA ix : a.at[InsertAt(ix, d + 1, 1)])

\* a.t(): defined for rank <= 2 only.
t(a) ==
  IF dim(a) > 2 THEN Err("RuntimeError")
  ELSE IF dim(a) < 2 THEN a
  ELSE Tensor(<<a.shape[2], a.shape[1]>>, LAMBDA ix : a.at[<<ix[2], ix[1]>>])

\* a.transpose(-2, -1): the last two axes are exchanged, for any rank >= 2.
transpose_last(a) ==
  LET n == dim(a)
      Swap(s) == [q \in 1..n |-> IF q = n - 1 THEN s[n]
                                  ELSE IF q = n THEN s[n - 1] ELSE s[q]]
  IN  Tensor(Swap(a.shape), LAMBDA ix : a.at[Swap(ix)])

\* a.permute(*perm): axis d of the result is axis perm[d] of a (from 0).
permute(a, perm) ==
  LET n == dim(a)
      Src(ix) == [q \in 1..n |-> ix[CHOOSE d \in 1..n : perm[d] + 1 = q]]
  IN  Tensor([d \in 1..n |-> a.shape[perm[d] + 1]], LAMBDA ix : a.at[Src(ix)])

\* range(fvar.dim()-1, -1, -1)
Reversed(n) == [d \in 1..n |-> n - d]

\* torch.matmul / torch.mm / @ on tensors of rank >= 2, batch axes broadcast.
matmul(a, b) ==
  LET ra == dim(a)
      rb == dim(b)
      ba == SubSeq(a.shape, 1, ra - 2)
      bb == SubSeq(b.shape, 1, rb - 2)
      bs == BShape(ba, bb)
      nb == Len(bs)
      kk == a.shape[ra]
  IN  IF kk # b.shape[rb - 1] \/ ~BCompatible(ba, bb) THEN Err("RuntimeError")
      ELSE Tensor(bs \o <<a.shape[ra - 1], b.shape[rb]>>,
             LAMBDA ix :
               LET bi == SubSeq(ix, 1, nb)
               IN  SumFn([k \in 1..kk |->
                            a.at[BIdx(bi, ba) \o <<ix[nb + 1], k>>]
                          * b.at[BIdx(bi, bb) \o <<k, ix[nb + 2]>>]], kk))

(***************************************************************************)
(* torch.cholesky(a, upper=False).  The factorization reads the lower      *)
(* triangle of a and raises RuntimeError at the first pivot that is not    *)
(* positive; pivot j is the quotient of the leading minors j and j-1, so   *)
(* the factorization succeeds exactly when every leading minor is          *)
(* positive.                                                               *)
(***************************************************************************)
Low(a, i, j) == IF i >= j THEN a.at[<<i, j>>] ELSE a.at[<<j, i>>]

RECURSIVE Det(_, _, _)
Det(a, rows, cols) ==
  IF Len(rows) = 0 THEN 1
  ELSE SumFn([q \in 1..Len(cols) |->
                (IF q % 2 = 1 THEN 1 ELSE -1)
                * Low(a, rows[1], cols[q])
                * Det(a, Tail(rows), RemoveAt(cols, q))], Len(cols))

LeadingMinor(a, j) == Det(a, [q \in 1..j |-> q], [q \in 1..j |-> q])

PositiveDefinite(a) == \A j \in 1..a.shape[1] : LeadingMinor(a, j) > 0

ISqrt(p) ==
  IF p <= 0 THEN 0 ELSE CHOOSE s \in 1..p : s * s <= p /\ (s + 1) * (s + 1) > p

RECURSIVE CholEntry(_, _, _)
CholEntry(a, i, j) ==
  LET s == SumFn([k \in 1..(j - 1) |-> CholEntry(a, i, k) * CholEntry(a, j, k)],
                 j - 1)
  IN  IF j > i THEN 0
      ELSE IF i = j THEN ISqrt(a.at[<<i, i>>] - s)
      ELSE LET p == CholEntry(a, j, j)
           IN  IF p = 0 THEN 0 ELSE (a.at[<<i, j>>] - s) \div p

cholesky(a) ==
  IF dim(a) # 2 \/ a.shape[1] # a.shape[2] THEN Err("RuntimeError")
  ELSE IF ~PositiveDefinite(a) THEN Err("RuntimeError")
  ELSE Tensor(a.shape, LAMBDA ix : CholEntry(a, ix[1], ix[2]))

(***************************************************************************)
(* torch.linalg.solve_triangular(A, B, upper=...): ONE tensor X with       *)
(* A X = B, by forward (upper=False) or backward (upper=True)              *)
(* substitution; only the named triangle of A is read.  A zero on the       *)
(* diagonal raises nothing (torch fills the result with inf and nan); the  *)
(* integers have neither, and such entries are 0 here.                     *)
(***************************************************************************)
RECURSIVE SolveEntry(_, _, _, _, _)
SolveEntry(A, B, upper, i, c) ==
  LET ks == IF upper THEN (i + 1)..A.shape[1] ELSE 1..(i - 1)
  IN  IF A.at[<<i, i>>] = 0 THEN 0
      ELSE (B.at[<<i, c>>]
            - SumSet([k \in ks |-> A.at[<<i, k>>] * SolveEntry(A, B, upper, k, c)], ks))
           \div A.at[<<i, i>>]

solve_triangular(A, B, upper) ==
  IF dim(A) # 2 \/ dim(B) # 2 \/ A.shape[1] # A.shape[2] \/ A.shape[1] # B.shape[1]
  THEN Err("RuntimeError")
  ELSE Tensor(B.shape, LAMBDA ix : SolveEntry(A, B, upper, ix[1], ix[2]))

LowerPart(a) == Tensor(a.shape, LAMBDA ix : IF ix[2] > ix[1] THEN 0 ELSE a.at[ix])

\* Whether the integer factor above is the real-number factor (it is not
\* where a root or a quotient was rounded, or an integer pivot vanished).
CholeskyExact(a) ==
  LET L == cholesky(a)
  IN  IsErr(L) \/ LowerPart(matmul(L, t(L))) = LowerPart(a)

(***************************************************************************)
(* gp/conditionals.py                                                      *)
(***************************************************************************)
\* np.triu_indices(n, k, m): the (row, column) pairs, counted from 0, of an
\* n x m matrix on and above the k-th diagonal.
triu_indices(n, k, m) ==
  {<<i, j>> \in (0..(n - 1)) \X (0..(m - 1)) : j - i >= k}

\* B[..., ii, jj] = v
index_put_last2(B, pairs, v) ==
  LET r == dim(B)
  IN  Tensor(B.shape,
             LAMBDA ix : IF <<ix[r - 1] - 1, ix[r] - 1>> \in pairs THEN v
                         ELSE B.at[ix])

clone(A) == Tensor(A.shape, LAMBDA ix : A.at[ix])

\* batch_tril(A): out is the tensor returned, arg the contents of the
\* argument's storage when the call has returned.
batch_tril_nomask(A) == [out |-> clone(A), arg |-> A]

batch_tril(A) ==
  LET B == clone(A)
      pairs == triu_indices(B.shape[dim(B) - 1], 1, B.shape[dim(B)])
  IN  [out |-> index_put_last2(B, pairs, 0), arg |-> A]

\* The kernel collaborator: a covariance table over the input points.  X and
\* Xnew are n x 1 matrices of points.
kern_K(kern, A, B) ==
  Tensor(<<A.shape[1], B.shape[1]>>,
         LAMBDA ix : kern[<<A.at[<<ix[1], 1>>], B.at[<<ix[2], 1>>]>>])

kern_Kdiag(kern, A) ==
  Tensor(<<A.shape[1]>>, LAMBDA ix : kern[<<A.at[<<ix[1], 1>>], A.at[<<ix[1], 1>>]>>])

\* a.unsqueeze(0).expand(n, -1, ...): -1 keeps the size of the axis.
expand_first(a, n) == expand(unsqueeze(a, 0), <<n>> \o a.shape)

\* a.diagonal(offset=0, dim1=-2, dim2=-1) of a matrix
diagonal(a) ==
  Tensor(<<IF a.shape[1] <= a.shape[2] THEN a.shape[1] ELSE a.shape[2]>>,
         LAMBDA ix : a.at[<<ix[1], ix[1]>>])

\* The dispatch on q_sqrt: absent, rank 2 (standard deviations), rank 3
\* (Cholesky factors), or a rank the code raises ValueError for.
q_sqrt_kind_ignoring(q_sqrt) ==
  IF IsNone(q_sqrt) THEN "absent"
  ELSE IF dim(q_sqrt) = 2 THEN "diag"
  ELSE IF dim(q_sqrt) = 3 THEN "full"
  ELSE "absent"

q_sqrt_kind(q_sqrt) ==
  IF IsNone(q_sqrt) THEN "absent"
  ELSE IF dim(q_sqrt) = 2 THEN "diag"
  ELSE IF dim(q_sqrt) = 3 THEN "full"
  ELSE "invalid"

\* The return statements of conditional
conditional_return(fmean, fvar, Lm, return_Lm) ==
  IF return_Lm THEN [tuple |-> <<fmean, fvar, Lm>>]
  ELSE [tuple |-> <<fmean, fvar>>]

\* The return statements of conditional2
conditional2_return_trace_first(fmean, fvar, Lm, trace, return_Lm, return_trace) ==
  IF return_trace THEN [tuple |-> <<fmean, fvar, trace>>]
  ELSE IF return_Lm THEN [tuple |-> <<fmean, fvar, Lm>>]
  ELSE [tuple |-> <<fmean, fvar>>]

conditional2_return(fmean, fvar, Lm, trace, return_Lm, return_trace) ==
  IF return_Lm THEN [tuple |-> <<fmean, fvar, Lm>>]
  ELSE IF return_trace THEN [tuple |-> <<fmean, fvar, trace>>]
  ELSE [tuple |-> <<fmean, fvar>>]

\* The value of a call: ret is [tuple |-> the tuple returned] or the exception,
\* q_sqrt the caller's q_sqrt tensor when the call has ended.
conditional(Xnew, X, kern, f, full_cov, q_sqrt, whiten, jitter_level, return_Lm) ==
  LET num_data == X.shape[1]
      num_func == f.shape[2]
      Kmn == kern_K(kern, X, Xnew)
      Kmm == add(kern_K(kern, X, X), mul_scalar(eye(num_data), jitter_level))
      Lm == cholesky(Kmm)
      A0 == solve_triangular(Lm, Kmn, FALSE)
      fvar0 == IF full_cov
               THEN expand_first(sub(kern_K(kern, Xnew, Xnew), matmul(t(A0), A0)),
                                 num_func)
               ELSE expand_first(sub(kern_Kdiag(kern, Xnew), sum_dim(square(A0), 0)),
                                 num_func)
      A == IF ~whiten THEN solve_triangular(t(Lm), A0, TRUE) ELSE A0
      fmean == matmul(t(A), f)
      kind == q_sqrt_kind(q_sqrt)
      bt == batch_tril(permute(q_sqrt, <<2, 0, 1>>))
      L == bt.out
      LTA == IF kind = "diag" THEN mul(A, unsqueeze(t(q_sqrt), 2))
             ELSE matmul(transpose_last(L), A)
      LTAt == t(LTA)
      fvar1 == IF kind = "absent" THEN fvar0
               ELSE IF full_cov
                    THEN IF IsErr(LTAt) THEN LTAt ELSE add(fvar0, matmul(LTAt, LTA))
                    ELSE add(fvar0, sum_dim(square(LTA), 1))
      fvar == permute(fvar1, Reversed(dim(fvar1)))
      q_after == IF kind = "full" THEN permute(bt.arg, <<1, 2, 0>>) ELSE q_sqrt
  IN  IF IsErr(Lm) THEN [ret |-> Lm, q_sqrt |-> q_sqrt]
      ELSE IF kind = "invalid" THEN [ret |-> Err("ValueError"), q_sqrt |-> q_sqrt]
      ELSE IF IsErr(fvar1) THEN [ret |-> fvar1, q_sqrt |-> q_after]
      ELSE [ret |-> conditional_return(fmean, fvar, Lm, return_Lm), q_sqrt |-> q_after]

conditional2(Xnew, X, kern, f, full_cov, q_sqrt, whiten, jitter_level, return_Lm, return_trace) ==
  LET num_data == X.shape[1]
      num_func == f.shape[2]
      Kmn == kern_K(kern, X, Xnew)
      Kmm == add(kern_K(kern, X, X), mul_scalar(eye(num_data), jitter_level))
      Knn == add(kern_K(kern, Xnew, Xnew), mul_scalar(eye(Xnew.shape[1]), jitter_level))
      Lm == cholesky(Kmm)
      A0 == solve_triangular(Lm, Kmn, FALSE)
      fvar0 == IF full_cov
               THEN expand_first(sub(kern_K(kern, Xnew, Xnew), matmul(t(A0), A0)),
                                 num_func)
               ELSE expand_first(sub(kern_Kdiag(kern, Xnew), sum_dim(square(A0), 0)),
                                 num_func)
      A == IF ~whiten THEN solve_triangular(t(Lm), A0, TRUE) ELSE A0
      fmean == matmul(t(A), f)
      kind == q_sqrt_kind(q_sqrt)
      bt == batch_tril(permute(q_sqrt, <<2, 0, 1>>))
      L == bt.out
      LTA == IF kind = "diag" THEN mul(A, unsqueeze(t(q_sqrt), 2))
             ELSE matmul(transpose_last(L), A)
      LTAt == t(LTA)
      fvar1 == IF kind = "absent" THEN fvar0
               ELSE IF full_cov
                    THEN IF IsErr(LTAt) THEN LTAt ELSE add(fvar0, matmul(LTAt, LTA))
                    ELSE add(fvar0, sum_dim(square(LTA), 1))
      fvar == permute(fvar1, Reversed(dim(fvar1)))
      K_tilde == sub(Knn, matmul(t(A), A))
      trace == sum_dim(diagonal(K_tilde), 0)
      q_after == IF kind = "full" THEN permute(bt.arg, <<1, 2, 0>>) ELSE q_sqrt
  IN  IF IsErr(Lm) THEN [ret |-> Lm, q_sqrt |-> q_sqrt]
      ELSE IF kind = "invalid" THEN [ret |-> Err("ValueError"), q_sqrt |-> q_sqrt]
      ELSE IF IsErr(fvar1) THEN [ret |-> fvar1, q_sqrt |-> q_after]
      ELSE [ret |-> conditional2_return(fmean, fvar, Lm, trace, return_Lm, return_trace),
            q_sqrt |-> q_after]

(***************************************************************************)
(* gp/densities.py                                                         *)
(*                                                                         *)
(* A log-density is kept in closed form: the record [log2pi, logarg, quad] *)
(* stands for -1/2 * (log2pi * log(2 pi) + log(logarg) + quad).            *)
(***************************************************************************)
\* a[i]: the i-th slice along axis 0
select0(a, i) == Tensor(Tail(a.shape), LAMBDA ix : a.at[<<i>> \o ix])

\* "p, q = a": iterating a tensor yields its slices along axis 0, and the
\* unpacking needs exactly two of them.
unpack2(a) ==
  IF dim(a) = 0 THEN Err("TypeError")
  ELSE IF a.shape[1] # 2 THEN Err("ValueError")
  ELSE [items |-> <<select0(a, 1), select0(a, 2)>>]

RECURSIVE Prod(_, _)
Prod(f, n) == IF n = 0 THEN 1 ELSE f[<<n>>] * Prod(f, n - 1)

RECURSIVE Pow(_, _)
Pow(b, e) == IF e = 0 THEN 1 ELSE b * Pow(b, e - 1)

\* gaussian(x, mu, var), elementwise; the entries are log-densities.
gaussian(x, mu, var) ==
  [shape |-> x.shape,
   at |-> [ix \in Idx(x.shape) |->
             [log2pi |-> 1, logarg |-> var.at[ix],
              quad |-> ((mu.at[ix] - x.at[ix]) * (mu.at[ix] - x.at[ix]))
                       \div var.at[ix]]]]

multivariate_normal(x, mu, L) ==
  LET d0 == sub(x, mu)
      d == IF dim(d0) = 1 THEN unsqueeze(d0, 1) ELSE d0
      sol == solve_triangular(L, d, FALSE)
      unpacked == unpack2(sol)
      alpha0 == unpacked.items[1]
      alpha == squeeze(alpha0, 1)
      num_col == IF dim(x) = 1 THEN 1 ELSE x.shape[2]
      num_dims == x.shape[1]
      diagL == diagonal(L)
  IN  IF IsErr(d0) THEN d0
      ELSE IF IsErr(sol) THEN sol
      ELSE IF IsErr(unpacked) THEN unpacked
      ELSE IF IsErr(alpha) THEN alpha
      ELSE [log2pi |-> num_dims * num_col,
            logarg |-> Pow(Prod(diagL.at, diagL.shape[1]), 2 * num_col),
            quad |-> sum_all(square(alpha))]

(***************************************************************************)
(* gp/models/gpr.py                                                        *)
(*                                                                         *)
(* The multiplier of the retry loop is a Python float.  The floats of the  *)
(* model are the integers up to float_max = 2^FloatMaxExp, and inf: a      *)
(* product beyond float_max overflows to inf, as a double's does beyond    *)
(* its largest finite power of two.                                        *)
(***************************************************************************)
FloatMaxExp == 5

float_max == Pow(2, FloatMaxExp)

inf == 2 * float_max

float_mul(a, b) ==
  IF a = inf \/ b = inf \/ a * b > float_max THEN inf ELSE a * b

\* multiplier *= 2.
next_multiplier_additive(m) == m + 2

next_multiplier(m) == float_mul(m, 2)

\* The mean-function collaborator, by default zero: one column of zeros.
mean_function(X) == zeros(<<X.shape[1], 1>>)

\* K = self.kern.K(X) plus the noise variance, or the jitter, on the diagonal
noisy_K(self_, X) ==
  LET K == kern_K(self_.kern, X, X)
  IN  IF self_.variance # 0
      THEN add(K, mul_scalar(eye(X.shape[1]), self_.variance))
      ELSE add(K, mul_scalar(eye(X.shape[1]), self_.jitter_level))

\* The argument of torch.cholesky in the retry loop: K + multiplier*jitter
handed_to_cholesky(K, multiplier, jitter) ==
  add_scalar(K, float_mul(multiplier, jitter))

\* Y[:, i] (i counted from 1)
column(Y, i) == Tensor(<<Y.shape[1]>>, LAMBDA ix : Y.at[<<ix[1], i>>])

\* a[:n]
head_rows(a, n) == Tensor(<<n>> \o Tail(a.shape), LAMBDA ix : a.at[ix])

\* The end of compute_log_likelihood, from m = self.mean_function(X) on: the
\* value returned or the exception raised.
log_density(X, Y, L) ==
  LET m == mean_function(X)
      R == Y.shape[2]
      results == [i \in 1..R |-> multivariate_normal(column(Y, i), m, L)]
      failed == {i \in 1..R : IsErr(results[i])}
  IN  IF R > 1
      THEN IF failed # {}
           THEN results[CHOOSE i \in failed : \A j \in failed : i <= j]
           ELSE [stack |-> results]
      ELSE multivariate_normal(Y, m, L)

\* predict_f: the shapes of (fmean, fvar), or the exception raised.
predict_f(self_, Xnew, full_cov) ==
  LET Kx == kern_K(self_.kern, self_.X, Xnew)
      K == add(kern_K(self_.kern, self_.X, self_.X),
               mul_scalar(eye(self_.X.shape[1]), self_.variance))
      L == cholesky(K)
      A == solve_triangular(L, Kx, FALSE)
      V == solve_triangular(L, sub(self_.Y, mean_function(self_.X)), FALSE)
      fmean == add(matmul(t(A), V), mean_function(Xnew))
      fvarF == sub(kern_K(self_.kern, Xnew, Xnew), matmul(t(A), A))
      fvarD == sub(kern_Kdiag(self_.kern, Xnew), sum_dim(square(A), 0))
      fvar == IF full_cov
              THEN expand(unsqueeze(fvarF, 2),
                          <<fvarF.shape[1], fvarF.shape[2], self_.Y.shape[2]>>)
              ELSE expand(unsqueeze(fvarD, 1), <<fvarD.shape[1], self_.Y.shape[2]>>)
  IN  IF IsErr(L) THEN L
      ELSE [fmean_shape |-> fmean.shape, fvar_shape |-> fvar.shape]

(***************************************************************************)
(* State.                                                                  *)
(*   args   the caller's arguments of conditional / conditional2           *)
(*   res    per entry point and full_cov, what the last such call returned *)
(*          or raised (None: not called yet)                               *)
(*   self   the GPR model: X, Y, kern, jitter_level, likelihood variance   *)
(*   pc     where the running compute_log_likelihood call is               *)
(*   loc    its local variables, and the number of factorization attempts  *)
(*   hist   per call, how the last such call of the model ended            *)
(*   dargs  the arguments x, mu, L of the density functions                *)
(*   dret   per density function, what its call returned or raised         *)
(***************************************************************************)
VARIABLES args, res, self, pc, loc, hist, dargs, dret

vars == <<args, res, self, pc, loc, hist, dargs, dret>>

\* Bounds of the inputs.
MaxM == 2

MaxN == 2

NumFunc == 2

MaxOff == 1

\* jitter_level=1e-6, the unit of the integers of the model
jitter_default == 1

Points(from, n) == Tensor(<<n, 1>>, LAMBDA ix : from + ix[1])

\* A lower-triangular factor with diagonal d and sub-diagonal entries l.
Factor(M, d, l) ==
  Tensor(<<M, M>>, LAMBDA ix : IF ix[1] = ix[2] THEN d ELSE IF ix[1] > ix[2] THEN l ELSE 0)

CondIdle == args = None /\ res = None

GPRIdle == self = None /\ pc = "off" /\ loc = None /\ hist = None

DensityIdle == dargs = None /\ dret = None

\* The covariance table of a kernel over the points 1..M (X) and M+1..M+N
\* (Xnew): K(X,X) + jitter I = F F^T for the factor F, K(X,Xnew) = F F^T P for
\* the integer projection P, so that the factorization and both solves of
\* conditional are exact.  d = 0 gives a K(X,X) + jitter I that is singular.
KernelTable(M, N, d, l) ==
  LET F == Factor(M, d, l)
      Kmm == matmul(F, t(F))
      P == Tensor(<<M, N>>, LAMBDA ix : IF ix[1] = ix[2] THEN 2 ELSE 1)
      Kmn == matmul(Kmm, P)
  IN  [pq \in (1..(M + N)) \X (1..(M + N)) |->
         LET p == pq[1]
             q == pq[2]
         IN  IF p <= M /\ q <= M
             THEN Kmm.at[<<p, q>>] - (IF p = q THEN jitter_default ELSE 0)
             ELSE IF p <= M THEN Kmn.at[<<p, q - M>>]
             ELSE IF q <= M THEN Kmn.at[<<q, p - M>>]
             ELSE IF p = q THEN 30 + p ELSE 2]

\* q_sqrt of rank r (0: absent); g fills the strictly-upper entries of the
\* M x M slices of a rank-3 q_sqrt.
QSqrt(r, M, K, g) ==
  CASE r = 0 -> None
    [] r = 1 -> Tensor(<<M>>, LAMBDA ix : ix[1])
    [] r = 2 -> Tensor(<<M, K>>, LAMBDA ix : ix[1] + ix[2] - 1)
    [] r = 3 -> Tensor(<<M, M, K>>,
                       LAMBDA ix : IF ix[2] > ix[1] THEN g ELSE ix[1] + ix[2] + ix[3] - 2)

\* The ranks of q_sqrt the calls are made with; 0: q_sqrt=None.
QRanks == {0, 1, 2, 3}

\* The diagonals of the factor F of K(X,X) + jitter I: 0, a singular matrix,
\* and 2, a positive-definite one.
Diagonals == {0, 2}

\* What the caller leaves in the strictly-upper entries of a rank-3 q_sqrt.
Garbage == {0, 7}

Keys == {"conditional", "conditional2"} \X BOOLEAN

InitCond ==
  \E M \in 1..MaxM, N \in 1..MaxN, d \in Diagonals, l \in 0..MaxOff,
     r \in QRanks, g \in Garbage,
     whiten \in BOOLEAN, return_Lm \in BOOLEAN, return_trace \in BOOLEAN :
    /\ r # 3 => g = 0
    /\ (d = 0 \/ M = 1) => l = 0
    /\ GPRIdle
    /\ DensityIdle
    /\ args = [Xnew |-> Points(M, N), X |-> Points(0, M),
               kern |-> KernelTable(M, N, d, l),
               f |-> Tensor(<<M, NumFunc>>, LAMBDA ix : ix[1] + 2 * ix[2]),
               q_sqrt |-> QSqrt(r, M, NumFunc, g), whiten |-> whiten,
               jitter_level |-> jitter_default,
               return_Lm |-> return_Lm, return_trace |-> return_trace]
    /\ res = [k \in Keys |-> None]

CallConditional ==
  \E full_cov \in BOOLEAN :
    LET r == conditional(args.Xnew, args.X, args.kern, args.f, full_cov, args.q_sqrt,
                         args.whiten, args.jitter_level, args.return_Lm)
    IN  /\ res' = [res EXCEPT ![<<"conditional", full_cov>>] = r.ret]
        /\ args' = [args EXCEPT !.q_sqrt = r.q_sqrt]
        /\ UNCHANGED <<self, pc, loc, hist, dargs, dret>>

CallConditional2 ==
  \E full_cov \in BOOLEAN :
    LET r == conditional2(args.Xnew, args.X, args.kern, args.f, full_cov, args.q_sqrt,
                          args.whiten, args.jitter_level, args.return_Lm,
                          args.return_trace)
    IN  /\ res' = [res EXCEPT ![<<"conditional2", full_cov>>] = r.ret]
        /\ args' = [args EXCEPT !.q_sqrt = r.q_sqrt]
        /\ UNCHANGED <<self, pc, loc, hist, dargs, dret>>

\* Between two calls the caller overwrites the strictly-upper entries of the
\* slices of its rank-3 q_sqrt.
CallerOverwritesUpper ==
  \E g \in Garbage :
    /\ ~IsNone(args.q_sqrt)
    /\ dim(args.q_sqrt) = 3
    /\ args' = [args EXCEPT !.q_sqrt =
                  Tensor(args.q_sqrt.shape,
                         LAMBDA ix : IF ix[2] > ix[1] THEN g ELSE args.q_sqrt.at[ix])]
    /\ args' # args
    /\ UNCHANGED <<res, self, pc, loc, hist, dargs, dret>>

NextCond == CallConditional \/ CallConditional2 \/ CallerOverwritesUpper

SpecCond == InitCond /\ [][NextCond]_vars

(***************************************************************************)
(* The GPR model and its calls.                                            *)
(***************************************************************************)
MaxData == 2

MaxR == 2

MaxNeg == 4

MaxPos == 1

MaxVariance == 1

\* The jitter levels of the models: none, and the default.
JitterLevels == {0, jitter_default}

\* compute_log_likelihood(): X=None, Y=None, the stored data;
\* log_prob(X, Y) with a minibatch: the first row of the data.
CallArgs == {"None", "minibatch"}

HistKeys ==
  ({"compute_log_likelihood"} \X CallArgs) \cup ({"predict_f"} \X {"full_cov", "diag"})

\* K + multiplier*jitter at the first multiplier at which it factorizes is
\* factorized exactly.
FirstSuccess(K, jitter) ==
  LET ok == {e \in 0..FloatMaxExp :
               ~IsErr(cholesky(handed_to_cholesky(K, Pow(2, e), jitter)))}
  IN  IF ok = {} THEN -1 ELSE CHOOSE e \in ok : \A e2 \in ok : e <= e2

ExactRun(K, jitter) ==
  LET e == FirstSuccess(K, jitter)
  IN  e >= 0 => CholeskyExact(handed_to_cholesky(K, Pow(2, e), jitter))

CallX(arg) == IF arg = "None" THEN self.X ELSE head_rows(self.X, 1)

CallY(arg) == IF arg = "None" THEN self.Y ELSE head_rows(self.Y, 1)

InitGPR ==
  \E N \in 1..MaxData, R \in 1..MaxR, kd \in (-MaxNeg)..MaxPos, ko \in (-MaxNeg)..MaxPos,
     jitter \in JitterLevels, variance \in 0..MaxVariance :
    /\ N = 1 => ko = 0
    /\ self = [X |-> Points(0, N),
               Y |-> Tensor(<<N, R>>, LAMBDA ix : ix[1] + ix[2]),
               kern |-> [pq \in (1..(N + 1)) \X (1..(N + 1)) |->
                           IF pq[1] = pq[2] THEN kd ELSE ko],
               jitter_level |-> jitter, variance |-> variance]
    /\ \A arg \in CallArgs : ExactRun(noisy_K(self, CallX(arg)), jitter)
    /\ pc = "idle"
    /\ loc = None
    /\ hist = [k \in HistKeys |-> None]
    /\ CondIdle
    /\ DensityIdle

\* Lines 49-64: the defaults, K, and multiplier = 1.
compute_log_likelihood_enter ==
  \E arg \in CallArgs :
    /\ pc = "idle"
    /\ pc' = "loop"
    /\ loc' = [arg |-> arg, X |-> CallX(arg), Y |-> CallY(arg),
               K |-> noisy_K(self, CallX(arg)), jitter |-> self.jitter_level,
               multiplier |-> 1, attempts |-> 0, handed |-> None, L |-> None]
    /\ UNCHANGED <<self, hist, args, res, dargs, dret>>

\* Lines 65-72: one turn of the retry loop.
factorize_attempt_storing_jitter ==
  LET handed == handed_to_cholesky(loc.K, loc.multiplier, loc.jitter)
      L == cholesky(handed)
      m2 == next_multiplier(loc.multiplier)
  IN  /\ pc = "loop"
      /\ self' = [self EXCEPT !.jitter_level = float_mul(loc.multiplier, loc.jitter)]
      /\ IF ~IsErr(L)
         THEN /\ pc' = "factored"
              /\ loc' = [loc EXCEPT !.handed = handed, !.L = L, !.attempts = @ + 1]
              /\ hist' = hist
         ELSE IF m2 = inf
         THEN /\ pc' = "idle"
              /\ loc' = None
              /\ hist' = [hist EXCEPT ![<<"compute_log_likelihood", loc.arg>>] =
                            [raised |-> "RuntimeError: increase to inf jitter",
                             attempts |-> loc.attempts + 1, multiplier |-> m2,
                             L |-> None]]
         ELSE /\ pc' = "loop"
              /\ loc' = [loc EXCEPT !.handed = handed, !.multiplier = m2,
                                    !.attempts = @ + 1]
              /\ hist' = hist
      /\ UNCHANGED <<args, res, dargs, dret>>

factorize_attempt_raising_at_once ==
  LET handed == handed_to_cholesky(loc.K, loc.multiplier, loc.jitter)
      L == cholesky(handed)
      m2 == next_multiplier(loc.multiplier)
  IN  /\ pc = "loop"
      /\ IF ~IsErr(L)
         THEN /\ pc' = "factored"
              /\ loc' = [loc EXCEPT !.handed = handed, !.L = L, !.attempts = @ + 1]
              /\ hist' = hist
         ELSE /\ pc' = "idle"
              /\ loc' = None
              /\ hist' = [hist EXCEPT ![<<"compute_log_likelihood", loc.arg>>] =
                            [raised |-> "RuntimeError: increase to inf jitter",
                             attempts |-> loc.attempts + 1, multiplier |-> m2,
                             L |-> None]]
      /\ UNCHANGED <<self, args, res, dargs, dret>>

factorize_attempt ==
  LET handed == handed_to_cholesky(loc.K, loc.multiplier, loc.jitter)
      L == cholesky(handed)
      m2 == next_multiplier(loc.multiplier)
  IN  /\ pc = "loop"
      /\ IF ~IsErr(L)
         THEN /\ pc' = "factored"
              /\ loc' = [loc EXCEPT !.handed = handed, !.L = L, !.attempts = @ + 1]
              /\ hist' = hist
         ELSE IF m2 = inf
         THEN /\ pc' = "idle"
              /\ loc' = None
              /\ hist' = [hist EXCEPT ![<<"compute_log_likelihood", loc.arg>>] =
                            [raised |-> "RuntimeError: increase to inf jitter",
                             attempts |-> loc.attempts + 1, multiplier |-> m2,
                             L |-> None]]
         ELSE /\ pc' = "loop"
              /\ loc' = [loc EXCEPT !.handed = handed, !.multiplier = m2,
                                    !.attempts = @ + 1]
              /\ hist' = hist
      /\ UNCHANGED <<self, args, res, dargs, dret>>

\* Lines 73-82: the mean and the log-density, with the factor L of the loop.
compute_log_likelihood_density ==
  LET v == log_density(loc.X, loc.Y, loc.L)
  IN  /\ pc = "factored"
      /\ pc' = "idle"
      /\ loc' = None
      /\ hist' = [hist EXCEPT ![<<"compute_log_likelihood", loc.arg>>] =
                    IF IsErr(v)
                    THEN [raised |-> v.err, attempts |-> loc.attempts,
                          multiplier |-> loc.multiplier, L |-> loc.L]
                    ELSE [returned |-> v, attempts |-> loc.attempts,
                          multiplier |-> loc.multiplier, L |-> loc.L]]
      /\ UNCHANGED <<self, args, res, dargs, dret>>

CallPredictF ==
  \E full_cov \in BOOLEAN :
    LET v == predict_f(self, Points(self.X.shape[1], 1), full_cov)
    IN  /\ pc = "idle"
        /\ hist' = [hist EXCEPT ![<<"predict_f", IF full_cov THEN "full_cov" ELSE "diag">>] =
                      IF IsErr(v) THEN [raised |-> v.err] ELSE [returned |-> v]]
        /\ UNCHANGED <<self, pc, loc, args, res, dargs, dret>>

NextGPR ==
  \/ compute_log_likelihood_enter
  \/ factorize_attempt
  \/ compute_log_likelihood_density
  \/ CallPredictF

SpecGPR == InitGPR /\ [][NextGPR]_vars

\* A running call runs on: Python takes every turn of the loop, and executes
\* the statements after it.  compute_log_likelihood_density is enabled exactly
\* when pc = "factored" and every step of it leaves that position, so its weak
\* fairness is the formula []<>(pc # "factored").
FairGPR ==
  SpecGPR /\ WF_vars(factorize_attempt) /\ []<>(pc # "factored")

(***************************************************************************)
(* Calls of the density functions.                                         *)
(***************************************************************************)
MaxD == 2

MaxC == 2

MaxAlpha == 2

MaxMu == 1

MaxScale == 2

DensityFns == {"multivariate_normal", "gaussian"}

\* x = mu + L alpha for an integer alpha, so that the forward solve is exact;
\* x and mu are vectors (rank 1) or D x C matrices (rank 2).
InitDensity ==
  \E D \in 1..MaxD, C \in 1..MaxC, rank \in {1, 2}, d \in 1..MaxScale, l \in 0..MaxOff,
     a \in 0..MaxAlpha, m \in 0..MaxMu :
    LET L == Factor(D, d, l)
        alpha == Tensor(<<D, C>>, LAMBDA ix : a + ix[1] + 2 * ix[2] - 3)
        mu2 == Tensor(<<D, C>>, LAMBDA ix : m * ix[1])
        x2 == add(mu2, matmul(L, alpha))
    IN  /\ rank = 1 => C = 1
        /\ D = 1 => l = 0
        /\ dargs = [x |-> IF rank = 1 THEN column(x2, 1) ELSE x2,
                    mu |-> IF rank = 1 THEN column(mu2, 1) ELSE mu2,
                    L |-> L]
        /\ dret = [fn \in DensityFns |-> None]
        /\ CondIdle
        /\ GPRIdle

CallMultivariateNormal ==
  /\ dret' = [dret EXCEPT !["multivariate_normal"] =
                multivariate_normal(dargs.x, dargs.mu, dargs.L)]
  /\ UNCHANGED <<dargs, args, res, self, pc, loc, hist>>

\* The univariate density of a one-dimensional x, with var = L^2.
CallGaussian ==
  /\ dargs.L.shape[1] = 1
  /\ dret' = [dret EXCEPT !["gaussian"] =
                gaussian(dargs.x, dargs.mu,
                         Tensor(dargs.x.shape,
                                LAMBDA ix : dargs.L.at[<<1, 1>>] * dargs.L.at[<<1, 1>>]))]
  /\ UNCHANGED <<dargs, args, res, self, pc, loc, hist>>

NextDensity == CallMultivariateNormal \/ CallGaussian

SpecDensity == InitDensity /\ [][NextDensity]_vars

(***************************************************************************)
(* Properties of GPR.compute_log_likelihood and GPR.predict_f.             *)
(***************************************************************************)
Fatal == "RuntimeError: increase to inf jitter"

LikelihoodKeys == {"compute_log_likelihood"} \X CallArgs

EndedFatally(h) == ~IsNone(h) /\ "raised" \in DOMAIN h /\ h.raised = Fatal

\* C1: every call of compute_log_likelihood leaves its retry loop; it leaves
\* it at a successful factorization, or by raising the fatal error, and the
\* fatal error is raised exactly when every attempt failed and the multiplier
\* has reached infinity: a matrix that fails at every finite multiplier ends
\* the call with the fatal error.
C1_RetryLoopTerminates ==
  /\ (pc = "loop") ~> (pc # "loop")
  /\ (pc = "loop" /\ FirstSuccess(loc.K, loc.jitter) = -1)
       ~> (pc = "idle" /\ \E k \in LikelihoodKeys : EndedFatally(hist[k]))
  /\ [][pc = "loop" /\ pc' # "loop" =>
          \/ /\ pc' = "factored"
             /\ IsTensor(loc'.L)
             /\ FirstSuccess(loc.K, loc.jitter) >= 0
             /\ loc'.multiplier # inf
             /\ hist' = hist
          \/ /\ pc' = "idle"
             /\ FirstSuccess(loc.K, loc.jitter) = -1
             /\ LET h == hist'[<<"compute_log_likelihood", loc.arg>>]
                IN  /\ EndedFatally(h)
                    /\ h.multiplier = inf
                    /\ h.attempts = FloatMaxExp + 1
                    /\ IsNone(h.L)]_vars
  /\ [](\A k \in LikelihoodKeys : EndedFatally(hist[k]) => hist[k].multiplier = inf)

\* A call has ended with the fatal error.
C1_FatalRaised == \E k \in LikelihoodKeys : EndedFatally(hist[k])

\* C2: the k-th attempt of a call uses the multiplier 2^(k-1); an attempt is
\* made only after the one before it failed; the factor handed to the
\* log-density is the one of the first attempt that succeeded.
C2_GeometricBackoff ==
  /\ pc = "loop" =>
       /\ loc.multiplier = Pow(2, loc.attempts)
       /\ loc.attempts > 0 =>
            /\ IsErr(cholesky(loc.handed))
            /\ loc.handed.at[<<1, 1>>] - loc.K.at[<<1, 1>>]
                 = loc.jitter * Pow(2, loc.attempts - 1)
       /\ \A e \in 0..(loc.attempts - 1) : FirstSuccess(loc.K, loc.jitter) # e
  /\ pc = "factored" =>
       /\ loc.attempts >= 1
       /\ loc.multiplier = Pow(2, loc.attempts - 1)
       /\ loc.handed.at[<<1, 1>>] - loc.K.at[<<1, 1>>] = loc.jitter * loc.multiplier
       /\ loc.L = cholesky(loc.handed)
       /\ ~IsErr(loc.L)
       /\ FirstSuccess(loc.K, loc.jitter) = loc.attempts - 1
  /\ \A k \in LikelihoodKeys :
       (~IsNone(hist[k]) /\ ~EndedFatally(hist[k])) =>
         /\ hist[k].multiplier = Pow(2, hist[k].attempts - 1)
         /\ IsTensor(hist[k].L)

\* A call whose third attempt succeeded.
C2_ThirdAttemptSucceeded == pc = "factored" /\ loc.attempts >= 3

\* C3: every matrix handed to the factorization is kernel.K(X) plus a
\* multiple of the identity: its off-diagonal entries are those of
\* kernel.K(X).
C3_OnlyDiagonalPerturbed ==
  (pc \in {"loop", "factored"} /\ ~IsNone(loc.handed)) =>
    LET KX == kern_K(self.kern, loc.X, loc.X)
    IN  \A ix \in DOMAIN KX.at : ix[1] # ix[2] => loc.handed.at[ix] = KX.at[ix]

\* C10: compute_log_likelihood and predict_f leave the model unchanged; a
\* call starts at multiplier 1 with no attempt made; a repeated call ends as
\* the same call ended before, after the same attempts.
C10_ModelStateUnchanged ==
  [][/\ self' = self
     /\ (pc = "idle" /\ pc' = "loop") => (loc'.multiplier = 1 /\ loc'.attempts = 0)
     /\ \A k \in HistKeys : ~IsNone(hist[k]) => hist'[k] = hist[k]]_vars

\* A repeated call that escalates the jitter: the same call has ended before.
C10_RepeatedCallEscalates ==
  /\ pc = "loop"
  /\ loc.attempts >= 1
  /\ ~IsNone(hist[<<"compute_log_likelihood", loc.arg>>])
  /\ \E k \in {"predict_f"} \X {"full_cov", "diag"} : ~IsNone(hist[k])

(***************************************************************************)
(* Properties of the densities.                                            *)
(***************************************************************************)
\* C8: multivariate_normal returns, for every D and C,
\* -1/2 D C log(2 pi) - C sum(log(diag L)) - 1/2 sum(alpha^2) with alpha the
\* whole forward solve of L alpha = x - mu, and for D = 1 the value of
\* gaussian with var = L^2.
C8_MultivariateNormalFormula ==
  LET r == dret["multivariate_normal"]
      g == dret["gaussian"]
      D == dargs.L.shape[1]
      C == IF dim(dargs.x) = 1 THEN 1 ELSE dargs.x.shape[2]
      x2 == IF dim(dargs.x) = 1 THEN unsqueeze(dargs.x, 1) ELSE dargs.x
      mu2 == IF dim(dargs.mu) = 1 THEN unsqueeze(dargs.mu, 1) ELSE dargs.mu
      alpha == solve_triangular(dargs.L, sub(x2, mu2), FALSE)
  IN  /\ ~IsNone(r) =>
           /\ ~IsErr(r)
           /\ r.log2pi = D * C
           /\ r.logarg = Pow(Prod(diagonal(dargs.L).at, D), 2 * C)
           /\ r.quad = sum_all(square(alpha))
      /\ (~IsNone(r) /\ ~IsNone(g) /\ D = 1 /\ C = 1) =>
           /\ ~IsErr(r)
           /\ r = g.at[CHOOSE ix \in DOMAIN g.at : TRUE]

(***************************************************************************)
(* Properties of conditional and conditional2.                             *)
(***************************************************************************)
Returned(r) == ~IsNone(r) /\ ~IsErr(r)

\* The rank of the caller's q_sqrt; 0: q_sqrt=None
QRank == IF IsNone(args.q_sqrt) THEN 0 ELSE dim(args.q_sqrt)

\* K(X, X) + jitter_level I of the caller's arguments
ArgsKmm ==
  add(kern_K(args.kern, args.X, args.X),
      mul_scalar(eye(args.X.shape[1]), args.jitter_level))

\* The forward-substitution projection: Lm A = Kmn
Projection ==
  solve_triangular(cholesky(ArgsKmm), kern_K(args.kern, args.X, args.Xnew), FALSE)

\* The projection the mean and the q_sqrt terms are formed with
Weights ==
  IF args.whiten THEN Projection
  ELSE solve_triangular(t(cholesky(ArgsKmm)), Projection, TRUE)

\* The variance of function k at new point n: the prior variance less the
\* projected part (projection P), plus the part of q_sqrt, read by its rank
\* and weighted by W.
ExpectedVar(P, W, n, k) ==
  LET M == args.X.shape[1]
      q == args.q_sqrt
      base == kern_Kdiag(args.kern, args.Xnew).at[<<n>>]
                - SumFn([m \in 1..M |-> P.at[<<m, n>>] * P.at[<<m, n>>]], M)
      std(m) == W.at[<<m, n>>] * q.at[<<m, k>>]
      col(j) == SumFn([i \in 1..M |->
                         IF i >= j THEN q.at[<<i, j, k>>] * W.at[<<i, n>>] ELSE 0], M)
  IN  CASE QRank = 2 -> base + SumFn([m \in 1..M |-> std(m) * std(m)], M)
        [] QRank = 3 -> base + SumFn([j \in 1..M |-> col(j) * col(j)], M)
        [] OTHER -> base

\* A returned variance of a full_cov=False call is the one its rank of q_sqrt
\* stands for: standard deviations (rank 2) or Cholesky factors (rank 3).
DispatchedOnRank(key) ==
  (QRank \in {2, 3} /\ Returned(res[key]) /\ ~key[2]) =>
    LET P == Projection
        W == Weights
    IN  \A ix \in DOMAIN res[key].tuple[2].at :
          res[key].tuple[2].at[ix] = ExpectedVar(P, W, ix[1], ix[2])

\* C4: for every q_sqrt configuration (absent, rank 2, rank 3), conditional
\* with full_cov=True and with full_cov=False both succeed, and the diagonal
\* of the full covariance [:, :, k] is the variance [:, k].
C4_FullCovDiagonalAgrees ==
  (PositiveDefinite(ArgsKmm) /\ QRank \in {0, 2, 3}) =>
    LET rT == res[<<"conditional", TRUE>>]
        rF == res[<<"conditional", FALSE>>]
        N == args.Xnew.shape[1]
    IN  /\ ~IsNone(rT) => ~IsErr(rT)
        /\ ~IsNone(rF) => ~IsErr(rF)
        /\ (Returned(rT) /\ Returned(rF)) =>
             /\ rT.tuple[2].shape = <<N, N, NumFunc>>
             /\ rF.tuple[2].shape = <<N, NumFunc>>
             /\ \A n \in 1..N, k \in 1..NumFunc :
                  rT.tuple[2].at[<<n, n, k>>] = rF.tuple[2].at[<<n, k>>]

\* C5: conditional and conditional2 read q_sqrt by its rank, rank 2 as
\* standard deviations and rank 3 as Cholesky factors; with any other rank
\* the call fails and returns nothing, and the failure is the ValueError of
\* the dispatch whenever Kmm was factorized: the RuntimeError of a failed
\* factorization comes first.
C5_RankDispatch ==
  \A key \in Keys :
    LET r == res[key]
    IN  ~IsNone(r) =>
          /\ QRank \notin {0, 2, 3} =>
               /\ IsErr(r)
               /\ PositiveDefinite(ArgsKmm) => r.err = "ValueError"
               /\ ~PositiveDefinite(ArgsKmm) => r.err = "RuntimeError"
          /\ DispatchedOnRank(key)

\* A call with a q_sqrt of another rank has raised the ValueError.
C5_InvalidRankRaised ==
  /\ QRank \notin {0, 2, 3}
  /\ \E key \in Keys : res[key] = Err("ValueError")

\* C5 as stated: with any other rank the call fails with the ValueError.
C5_AlwaysInvalidArgument ==
  \A key \in Keys :
    LET r == res[key]
    IN  ~IsNone(r) =>
          /\ QRank \notin {0, 2, 3} => (IsErr(r) /\ r.err = "ValueError")
          /\ DispatchedOnRank(key)

\* C6: with a rank-3 q_sqrt the result of conditional does not depend on the
\* strictly-upper entries of the slices: a call made after they were
\* overwritten returns what the call before returned; batch_tril returns a
\* copy with the entries [.., i, j], j > i, set to 0 and the others kept, and
\* the caller's q_sqrt is as it was after a call.
C6_UpperEntriesIgnored ==
  /\ [](QRank = 3 =>
          LET p == permute(args.q_sqrt, <<2, 0, 1>>)
              b == batch_tril(p)
          IN  /\ b.arg = p
              /\ b.out.shape = p.shape
              /\ \A ix \in DOMAIN p.at :
                   b.out.at[ix] = IF ix[3] > ix[2] THEN 0 ELSE p.at[ix]
              /\ \A full_cov \in BOOLEAN :
                   conditional(args.Xnew, args.X, args.kern, args.f, full_cov,
                               args.q_sqrt, args.whiten, args.jitter_level,
                               args.return_Lm).q_sqrt = args.q_sqrt)
  /\ [][/\ \A full_cov \in BOOLEAN :
             ~IsNone(res[<<"conditional", full_cov>>]) =>
               res'[<<"conditional", full_cov>>] = res[<<"conditional", full_cov>>]
        /\ res' # res => args' = args]_vars

\* conditional has returned for a rank-3 q_sqrt whose slices have non-zero
\* strictly-upper entries.
C6_GarbageAboveDiagonal ==
  /\ QRank = 3
  /\ args.X.shape[1] >= 2
  /\ args.q_sqrt.at[<<1, 2, 1>>] # 0
  /\ Returned(res[<<"conditional", FALSE>>])

\* C7: conditional2 returns (fmean, fvar, Lm) whenever return_Lm is set, also
\* when return_trace is set; (fmean, fvar, trace) when only return_trace is
\* set; the pair (fmean, fvar) when neither is.  conditional returns
\* (fmean, fvar, Lm) when return_Lm is set and the pair otherwise.
C7_ReturnPriority ==
  \A full_cov \in BOOLEAN :
    LET r2 == res[<<"conditional2", full_cov>>]
        r1 == res[<<"conditional", full_cov>>]
    IN  /\ Returned(r2) =>
             /\ dim(r2.tuple[1]) = 2
             /\ dim(r2.tuple[2]) = IF full_cov THEN 3 ELSE 2
             /\ IF args.return_Lm
                THEN Len(r2.tuple) = 3 /\ r2.tuple[3] = cholesky(ArgsKmm)
                ELSE IF args.return_trace
                THEN Len(r2.tuple) = 3 /\ dim(r2.tuple[3]) = 0
                ELSE Len(r2.tuple) = 2
        /\ Returned(r1) =>
             IF args.return_Lm
             THEN Len(r1.tuple) = 3 /\ r1.tuple[3] = cholesky(ArgsKmm)
             ELSE Len(r1.tuple) = 2

\* conditional2 has returned with both flags set.
C7_BothFlagsSet ==
  /\ args.return_Lm
  /\ args.return_trace
  /\ Returned(res[<<"conditional2", FALSE>>])

\* C9: the trace conditional2 returns is that of Knn - A^T A with A the
\* forward-substitution projection, for whiten=True and for whiten=False.
C9_TraceOfProjection ==
  \A full_cov \in BOOLEAN :
    LET r == res[<<"conditional2", full_cov>>]
        N == args.Xnew.shape[1]
        M == args.X.shape[1]
        Knn == add(kern_K(args.kern, args.Xnew, args.Xnew),
                   mul_scalar(eye(N), args.jitter_level))
    IN  (Returned(r) /\ ~args.return_Lm /\ args.return_trace) =>
          r.tuple[3].at[<<>>] =
            SumFn([n \in 1..N |->
                     Knn.at[<<n, n>>]
                       - SumFn([m \in 1..M |->
                                  Projection.at[<<m, n>>] * Projection.at[<<m, n>>]], M)],
                  N)

====
